---- MODULE Spec2Model ----
(***************************************************************************)
(* SpaceX ETL: run_etl (Src/etl.py) extracts launches from the remote API, *)
(* collects the rocket and launchpad ids they reference, fetches those     *)
(* records by id (Src/api.py) and loads everything into the SQLite         *)
(* warehouse (Src/db.py): two dimension tables and one fact table.         *)
(*                                                                         *)
(* Values.  JSON null / Python None / SQL NULL in a TEXT column is Null;   *)
(* a key missing from a JSON object is Absent (dict.get turns it into      *)
(* None); SQL NULL in an INTEGER column is NullInt.  JSON true and false   *)
(* are the strings "true" and "false".  The columns name, type, date_utc,  *)
(* details, region, latitude and longitude are copied with dict.get like   *)
(* launchpads.name, which stands for them.                                 *)
(***************************************************************************)
EXTENDS Integers, Sequences, FiniteSets, TLC

VARIABLES
    source,            \* what the remote API serves during the current run
    prev,              \* between runs: the source of the last run if it completed
    rerun,             \* the run works on the data the preceding run loaded
    served,            \* launch records the remote has served so far
    pc,                \* position inside run_etl ("idle" between runs)
    exc,               \* the exception raised in the current / last run
    outcome,           \* how the last run ended
    launches,          \* run_etl local: the extracted launch list
    rocket_ids,        \* run_etl local
    launchpad_ids,     \* run_etl local
    rockets_map,       \* run_etl local: ordered dict as a sequence of items
    launchpads_map,    \* run_etl local
    rocket_id_map,     \* run_etl local: spacex_id -> surrogate key
    launchpad_id_map,  \* run_etl local
    conn,              \* the sqlite3 connection of the run
    opens,             \* connections opened by the current / last run
    db,                \* committed content of Data/DB/spacex.db
    tx                 \* content as seen through the open connection

vars == <<source, prev, rerun, served, pc, exc, outcome, launches, rocket_ids,
          launchpad_ids, rockets_map, launchpads_map, rocket_id_map,
          launchpad_id_map, conn, opens, db, tx>>

locals == <<launches, rocket_ids, launchpad_ids, rockets_map, launchpads_map,
            rocket_id_map, launchpad_id_map>>

(***************************************************************************)
(* Bounds and input domains                                                *)
(***************************************************************************)
\* The launch records the remote serves over all runs together.
MaxRecords == 3

Null == "<null>"
Absent == "<absent>"
NullInt == -1

LaunchIdVals == {"L1", "L2", Absent}
RocketRefVals == {"r1", "r2", "", Absent}
LaunchpadRefVals == {"p1", Null}
SuccessVals == {"true", "false", Null, Absent}
ApiVersions == {"v1", "v2"}

LaunchFields == {"id", "rocket", "launchpad", "success"}

BaseLaunch == [id |-> "L1", rocket |-> "r1", launchpad |-> "p1", success |-> "true"]

\* Launch records of the remote collection: the base record with at most one
\* field changed, and a second launch of unknown success.
LaunchRecs ==
    {l \in [id : LaunchIdVals, rocket : RocketRefVals,
            launchpad : LaunchpadRefVals, success : SuccessVals] :
        \E f \in LaunchFields : \A g \in LaunchFields \ {f} : l[g] = BaseLaunch[g]}
    \cup {[BaseLaunch EXCEPT !.id = "L2", !.success = Null]}

LaunchLists(n) == UNION {[1..k -> LaunchRecs] : k \in 0..n}

\* The remote data of one run with at most n launches.  isList = FALSE is a
\* /launches payload that is not a JSON array.  The second version of the
\* dimension records is served with the base launch alone.
Sources(n) ==
    {s \in [isList : {TRUE}, launches : LaunchLists(n), api : ApiVersions] :
        s.api = "v2" => s.launches = <<BaseLaunch>>}
    \cup {[isList |-> FALSE, launches |-> <<>>, api |-> "v1"]}

NoSource == [isList |-> FALSE, launches |-> <<>>, api |-> "none"]

\* GET rockets/<rid> and GET launchpads/<pid> under each version of the data.
RocketRecord(rid, ver) ==
    [active |-> IF ver = "v1"
                THEN (IF rid = "r1" THEN "true" ELSE "false")
                ELSE (IF rid = "r1" THEN Absent ELSE "true")]

LaunchpadRecord(pid, ver) ==
    [name |-> IF ver = "v1" THEN "LC-39A" ELSE Absent]

(***************************************************************************)
(* Python and SQLite helpers                                               *)
(***************************************************************************)
\* dict.get(key): None for a missing key.
Get(rec, f) == IF rec[f] = Absent THEN Null ELSE rec[f]

\* Faulty variant: "if rid is not None" instead of "if rid".
TruthyNotNone(v) == v # Null

\* Truthiness of an optional string: None and "" are falsy.
Truthy(v) == v # Null /\ v # ""

\* dict.get(key) on a str -> int mapping: None for a missing key.
MapGet(m, k) == IF k \in DOMAIN m THEN m[k] ELSE NullInt

\* All orders in which a Python set can be iterated.
Orders(S) ==
    {o \in [1..Cardinality(S) -> S] : \A i, j \in DOMAIN o : o[i] = o[j] => i = j}

AllTables == {"rockets", "launchpads", "launches"}
TableOrder == <<"rockets", "launchpads", "launches">>

EmptyTable == [rows |-> {}, seq |-> 0]

EmptyDb == [schema |-> {}, rockets |-> EmptyTable, launchpads |-> EmptyTable,
            launches |-> EmptyTable]

\* Faulty variant: the spacex_id column without UNIQUE, every insert adds a row.
InsertNoUnique(t, row) ==
    [rows |-> t.rows \cup {[row EXCEPT !.id = t.seq + 1]}, seq |-> t.seq + 1]

\* Faulty variant: INSERT OR REPLACE, the conflicting row is deleted and the new one
\* stored under a new key.
InsertOrReplace(t, row) ==
    [rows |-> {r \in t.rows : r.spacex_id = Null \/ r.spacex_id # row.spacex_id}
              \cup {[row EXCEPT !.id = t.seq + 1]},
     seq |-> t.seq + 1]

\* INSERT OR IGNORE INTO t (...) VALUES (...) on a table with
\* id INTEGER PRIMARY KEY AUTOINCREMENT and spacex_id TEXT UNIQUE.  A NULL
\* spacex_id never conflicts.  The rowid is drawn from sqlite_sequence before
\* the UNIQUE check, so an ignored insert consumes a key too.
InsertOrIgnore(t, row) ==
    LET newid == t.seq + 1
        conflict == row.spacex_id # Null
                    /\ \E r \in t.rows : r.spacex_id = row.spacex_id
    IN  [rows |-> IF conflict THEN t.rows
                  ELSE t.rows \cup {[row EXCEPT !.id = newid]},
         seq |-> newid]

\* SELECT id, spacex_id FROM t  ->  {row[1]: row[0] for row in cur.fetchall()}
\* (for rows sharing a spacex_id the dict keeps one of them).
IdMap(t) ==
    [k \in {r.spacex_id : r \in t.rows} |->
        (CHOOSE r \in t.rows : r.spacex_id = k).id]

(***************************************************************************)
(* Src/api.py                                                              *)
(***************************************************************************)
\* extract_unique_ids: the loop over launches[i..], adding to the two sets.
RECURSIVE ExtractLoop(_, _, _)
ExtractLoop(ls, i, acc) ==
    IF i > Len(ls) THEN acc
    ELSE LET rid == Get(ls[i], "rocket")
             pid == Get(ls[i], "launchpad")
         IN  ExtractLoop(ls, i + 1,
                 [rocket_ids |-> IF Truthy(rid) THEN acc.rocket_ids \cup {rid}
                                 ELSE acc.rocket_ids,
                  launchpad_ids |-> IF Truthy(pid) THEN acc.launchpad_ids \cup {pid}
                                    ELSE acc.launchpad_ids])

extract_unique_ids(ls) ==
    ExtractLoop(ls, 1, [rocket_ids |-> {}, launchpad_ids |-> {}])

\* fetch_rockets / fetch_launchpads: one get_json per id, in the set's
\* iteration order; the dict keeps that order.
fetch_rockets(order, ver) ==
    [i \in DOMAIN order |-> [id |-> order[i], rec |-> RocketRecord(order[i], ver)]]

fetch_launchpads(order, ver) ==
    [i \in DOMAIN order |-> [id |-> order[i], rec |-> LaunchpadRecord(order[i], ver)]]

(***************************************************************************)
(* Src/db.py                                                               *)
(***************************************************************************)
\* 1 if r.get("active") else 0
ActiveInt(v) == IF v = "true" THEN 1 ELSE 0

RocketRow(item) ==
    [id |-> 0, spacex_id |-> item.id, active |-> ActiveInt(Get(item.rec, "active"))]

LaunchpadRow(item) ==
    [id |-> 0, spacex_id |-> item.id, name |-> Get(item.rec, "name")]

\* Faulty variant: 1 if success_val else 0, as for rockets.active.
SuccessIntCollapsed(v) == IF v = "true" THEN 1 ELSE 0

\* success_int: None stays None, otherwise 1 if success_val else 0.
SuccessInt(v) == IF v = Null THEN NullInt ELSE IF v = "true" THEN 1 ELSE 0

\* Faulty variant: the rocket reference looked up in the launchpad mapping.
LaunchRowWrongMap(launch, rmap, pmap) ==
    [id |-> 0,
     spacex_id |-> Get(launch, "id"),
     success |-> SuccessInt(Get(launch, "success")),
     rocket_id |-> MapGet(pmap, Get(launch, "rocket")),
     launchpad_id |-> MapGet(pmap, Get(launch, "launchpad"))]

\* One row of load_launches, before the table assigns its id.
LaunchRow(launch, rmap, pmap) ==
    [id |-> 0,
     spacex_id |-> Get(launch, "id"),
     success |-> SuccessInt(Get(launch, "success")),
     rocket_id |-> MapGet(rmap, Get(launch, "rocket")),
     launchpad_id |-> MapGet(pmap, Get(launch, "launchpad"))]

\* The insert loops of load_dimension_tables and load_launches over the
\* first n rows.
RECURSIVE InsertRows(_, _, _)
InsertRows(t, rowseq, n) ==
    IF n = 0 THEN t
    ELSE InsertOrIgnore(InsertRows(t, rowseq, n - 1), rowseq[n])

RocketRows(items) == [i \in DOMAIN items |-> RocketRow(items[i])]
LaunchpadRows(items) == [i \in DOMAIN items |-> LaunchpadRow(items[i])]
LaunchRows(ls, rmap, pmap) == [i \in DOMAIN ls |-> LaunchRow(ls[i], rmap, pmap)]

\* Faulty variant: the mapping built for the ids of this run's map only.
ReadBackFetched(t, items) ==
    LET fetched == {items[i].id : i \in DOMAIN items}
    IN  [k \in {r.spacex_id : r \in t.rows} \cap fetched |-> IdMap(t)[k]]

\* The read-back of load_dimension_tables: the whole table, not only the
\* ids of this run's map.
ReadBack(t, items) == IdMap(t)

(***************************************************************************)
(* Src/etl.py: run_etl, one action per step                                *)
(***************************************************************************)
FetchPcs == {"extract_all_launches", "fetch_rockets", "fetch_launchpads"}

DimPcs == {"dim_insert_rockets", "dim_insert_launchpads", "dim_commit", "dim_select"}

LaunchPcs == {"launches_insert", "launches_commit"}

StoragePcs == {"create_schema"} \cup DimPcs \cup LaunchPcs

Init ==
    /\ source = NoSource
    /\ prev = NoSource
    /\ rerun = FALSE
    /\ served = 0
    /\ pc = "idle"
    /\ exc = "none"
    /\ outcome = "none"
    /\ launches = <<>>
    /\ rocket_ids = {}
    /\ launchpad_ids = {}
    /\ rockets_map = <<>>
    /\ launchpads_map = <<>>
    /\ rocket_id_map = <<>>
    /\ launchpad_id_map = <<>>
    /\ conn = "none"
    /\ opens = 0
    /\ db = EmptyDb
    /\ tx = EmptyDb

\* run_etl returns or an exception leaves it: its locals are gone.
EndRun(status) ==
    /\ pc' = "idle"
    /\ outcome' = status
    /\ prev' = IF status = "Done" THEN source ELSE NoSource
    /\ rerun' = FALSE
    /\ source' = NoSource
    /\ launches' = <<>>
    /\ rocket_ids' = {}
    /\ launchpad_ids' = {}
    /\ rockets_map' = <<>>
    /\ launchpads_map' = <<>>
    /\ rocket_id_map' = <<>>
    /\ launchpad_id_map' = <<>>

\* main() calls run_etl; the remote serves some data during the run.
StartRun ==
    /\ pc = "idle"
    /\ source' \in Sources(MaxRecords - served)
    /\ served' = served + Len(source'.launches)
    /\ rerun' = (source' = prev)
    /\ prev' = NoSource
    /\ pc' = "extract_all_launches"
    /\ exc' = "none"
    /\ outcome' = "none"
    /\ conn' = "none"
    /\ opens' = 0
    /\ UNCHANGED <<locals, db, tx>>

\* An exception raised before the try block propagates out of run_etl.
Abort(e) ==
    /\ exc' = e
    /\ EndRun("Failed")
    /\ UNCHANGED <<served, conn, opens, db, tx>>

\* Faulty variant: the failure of create_schema is caught and the run goes on.
RaiseContinue(e) ==
    /\ exc' = e
    /\ pc' = IF pc = "create_schema" THEN "dim_insert_rockets" ELSE "close"
    /\ UNCHANGED <<source, prev, rerun, served, outcome, locals, conn, opens>>

\* An exception raised inside the try block: control goes to finally.
Raise(e) ==
    /\ exc' = e
    /\ pc' = "close"
    /\ UNCHANGED <<source, prev, rerun, served, outcome, locals, conn, opens>>

ExtractAllLaunches ==
    /\ pc = "extract_all_launches"
    /\ source.isList
    /\ launches' = source.launches
    /\ pc' = "extract_unique_ids"
    /\ UNCHANGED <<source, prev, rerun, served, exc, outcome, rocket_ids, launchpad_ids,
                   rockets_map, launchpads_map, rocket_id_map, launchpad_id_map,
                   conn, opens, db, tx>>

\* get_json("launches") raises SystemExit (requests.RequestException).
ExtractAllLaunchesTransportError ==
    /\ pc = "extract_all_launches"
    /\ Abort("SystemExit")

\* The payload is not a list: ValueError.
ExtractAllLaunchesFormatError ==
    /\ pc = "extract_all_launches"
    /\ ~source.isList
    /\ Abort("ValueError")

ExtractUniqueIds ==
    /\ pc = "extract_unique_ids"
    /\ LET ids == extract_unique_ids(launches)
       IN  /\ rocket_ids' = ids.rocket_ids
           /\ launchpad_ids' = ids.launchpad_ids
    /\ pc' = "fetch_rockets"
    /\ UNCHANGED <<source, prev, rerun, served, exc, outcome, launches, rockets_map,
                   launchpads_map, rocket_id_map, launchpad_id_map, conn, opens,
                   db, tx>>

FetchRockets ==
    /\ pc = "fetch_rockets"
    /\ \E order \in Orders(rocket_ids) :
          rockets_map' = fetch_rockets(order, source.api)
    /\ pc' = "fetch_launchpads"
    /\ UNCHANGED <<source, prev, rerun, served, exc, outcome, launches, rocket_ids,
                   launchpad_ids, launchpads_map, rocket_id_map, launchpad_id_map,
                   conn, opens, db, tx>>

\* Faulty variant: a failed by-id fetch is skipped and the run goes on with the
\* rockets it could fetch.
FetchRocketsSkipFailed ==
    /\ pc = "fetch_rockets"
    /\ rocket_ids # {}
    /\ \E order \in Orders(rocket_ids) : \E k \in 0..(Len(order) - 1) :
          rockets_map' = fetch_rockets(SubSeq(order, 1, k), source.api)
    /\ pc' = "fetch_launchpads"
    /\ UNCHANGED <<source, prev, rerun, served, exc, outcome, launches, rocket_ids,
                   launchpad_ids, launchpads_map, rocket_id_map, launchpad_id_map,
                   conn, opens, db, tx>>

\* One of the get_json("rockets/<rid>") calls raises SystemExit; the dict of
\* the rockets fetched before it is dropped with the frame.
FetchRocketsError ==
    /\ pc = "fetch_rockets"
    /\ rocket_ids # {}
    /\ Abort("SystemExit")

FetchLaunchpads ==
    /\ pc = "fetch_launchpads"
    /\ \E order \in Orders(launchpad_ids) :
          launchpads_map' = fetch_launchpads(order, source.api)
    /\ pc' = "save_raw_json"
    /\ UNCHANGED <<source, prev, rerun, served, exc, outcome, launches, rocket_ids,
                   launchpad_ids, rockets_map, rocket_id_map, launchpad_id_map,
                   conn, opens, db, tx>>

FetchLaunchpadsError ==
    /\ pc = "fetch_launchpads"
    /\ launchpad_ids # {}
    /\ Abort("SystemExit")

\* The three save_raw_json calls write files under Data/Row.
SaveRawJson ==
    /\ pc = "save_raw_json"
    /\ pc' = "get_connection"
    /\ UNCHANGED <<source, prev, rerun, served, exc, outcome, locals, conn, opens, db, tx>>

\* mkdir or open raises OSError.
SaveRawJsonError ==
    /\ pc = "save_raw_json"
    /\ Abort("OSError")

\* conn = db.get_connection()
GetConnection ==
    /\ pc = "get_connection"
    /\ conn' = "open"
    /\ opens' = opens + 1
    /\ tx' = db
    /\ pc' = "create_schema"
    /\ UNCHANGED <<source, prev, rerun, served, exc, outcome, locals, db>>

\* mkdir or sqlite3.connect raises: no connection was made.
GetConnectionError ==
    /\ pc = "get_connection"
    /\ Abort("sqlite3.Error")

\* create_schema: three CREATE TABLE IF NOT EXISTS, each committed by SQLite
\* as it runs (the sqlite3 module opens no transaction for DDL).
CreateSchema ==
    /\ pc = "create_schema"
    /\ db' = [db EXCEPT !.schema = AllTables]
    /\ tx' = [tx EXCEPT !.schema = AllTables]
    /\ pc' = "dim_insert_rockets"
    /\ UNCHANGED <<source, prev, rerun, served, exc, outcome, locals, conn, opens>>

\* One of the statements raises; the tables created before it stay.
CreateSchemaError ==
    /\ pc = "create_schema"
    /\ \E k \in 0..(Len(TableOrder) - 1) :
          LET made == {TableOrder[i] : i \in 1..k}
          IN  /\ db' = [db EXCEPT !.schema = @ \cup made]
              /\ tx' = [tx EXCEPT !.schema = @ \cup made]
    /\ Raise("sqlite3.Error")

\* load_dimension_tables, first loop: INSERT OR IGNORE INTO rockets.
DimInsertRockets ==
    /\ pc = "dim_insert_rockets"
    /\ "rockets" \in tx.schema
    /\ tx' = [tx EXCEPT !.rockets =
                 InsertRows(@, RocketRows(rockets_map), Len(rockets_map))]
    /\ pc' = "dim_insert_launchpads"
    /\ UNCHANGED <<source, prev, rerun, served, exc, outcome, locals, conn, opens, db>>

\* An execute raises after k rows went into the open transaction.
DimInsertRocketsError ==
    /\ pc = "dim_insert_rockets"
    /\ rockets_map # <<>>
    /\ \E k \in 0..(Len(rockets_map) - 1) :
          tx' = [tx EXCEPT !.rockets = InsertRows(@, RocketRows(rockets_map), k)]
    /\ UNCHANGED db
    /\ Raise("sqlite3.Error")

\* load_dimension_tables, second loop: INSERT OR IGNORE INTO launchpads.
DimInsertLaunchpads ==
    /\ pc = "dim_insert_launchpads"
    /\ "launchpads" \in tx.schema
    /\ tx' = [tx EXCEPT !.launchpads =
                 InsertRows(@, LaunchpadRows(launchpads_map), Len(launchpads_map))]
    /\ pc' = "dim_commit"
    /\ UNCHANGED <<source, prev, rerun, served, exc, outcome, locals, conn, opens, db>>

DimInsertLaunchpadsError ==
    /\ pc = "dim_insert_launchpads"
    /\ launchpads_map # <<>>
    /\ \E k \in 0..(Len(launchpads_map) - 1) :
          tx' = [tx EXCEPT !.launchpads =
                    InsertRows(@, LaunchpadRows(launchpads_map), k)]
    /\ UNCHANGED db
    /\ Raise("sqlite3.Error")

\* load_dimension_tables: conn.commit()
DimCommit ==
    /\ pc = "dim_commit"
    /\ db' = tx
    /\ pc' = "dim_select"
    /\ UNCHANGED <<source, prev, rerun, served, exc, outcome, locals, conn, opens, tx>>

DimCommitError ==
    /\ pc = "dim_commit"
    /\ UNCHANGED <<db, tx>>
    /\ Raise("sqlite3.Error")

\* load_dimension_tables: the two SELECTs and the return.
DimSelect ==
    /\ pc = "dim_select"
    /\ rocket_id_map' = ReadBack(tx.rockets, rockets_map)
    /\ launchpad_id_map' = ReadBack(tx.launchpads, launchpads_map)
    /\ pc' = "launches_insert"
    /\ UNCHANGED <<source, prev, rerun, served, exc, outcome, launches, rocket_ids,
                   launchpad_ids, rockets_map, launchpads_map, conn, opens, db, tx>>

DimSelectError ==
    /\ pc = "dim_select"
    /\ UNCHANGED <<db, tx>>
    /\ Raise("sqlite3.Error")

\* load_launches: the loop of INSERT OR IGNORE INTO launches.
LaunchesInsert ==
    /\ pc = "launches_insert"
    /\ "launches" \in tx.schema
    /\ tx' = [tx EXCEPT !.launches =
                 InsertRows(@, LaunchRows(launches, rocket_id_map, launchpad_id_map),
                            Len(launches))]
    /\ pc' = "launches_commit"
    /\ UNCHANGED <<source, prev, rerun, served, exc, outcome, locals, conn, opens, db>>

LaunchesInsertError ==
    /\ pc = "launches_insert"
    /\ launches # <<>>
    /\ \E k \in 0..(Len(launches) - 1) :
          tx' = [tx EXCEPT !.launches =
                    InsertRows(@, LaunchRows(launches, rocket_id_map,
                                             launchpad_id_map), k)]
    /\ UNCHANGED db
    /\ Raise("sqlite3.Error")

\* load_launches: conn.commit(), then the try block is left normally.
LaunchesCommit ==
    /\ pc = "launches_commit"
    /\ db' = tx
    /\ pc' = "close"
    /\ UNCHANGED <<source, prev, rerun, served, exc, outcome, locals, conn, opens, tx>>

LaunchesCommitError ==
    /\ pc = "launches_commit"
    /\ UNCHANGED <<db, tx>>
    /\ Raise("sqlite3.Error")

\* Faulty variant: no finally clause, conn.close() runs after a normal end only.
CloseOnSuccessOnly ==
    /\ pc = "close"
    /\ conn' = IF exc = "none" THEN "closed" ELSE conn
    /\ tx' = db
    /\ EndRun(IF exc = "none" THEN "Done" ELSE "Failed")
    /\ UNCHANGED <<served, exc, opens, db>>

\* finally: conn.close().  What was not committed is rolled back; a pending
\* exception then leaves run_etl.
Close ==
    /\ pc = "close"
    /\ conn' = "closed"
    /\ tx' = db
    /\ EndRun(IF exc = "none" THEN "Done" ELSE "Failed")
    /\ UNCHANGED <<served, exc, opens, db>>

Next ==
    \/ StartRun
    \/ ExtractAllLaunches
    \/ ExtractAllLaunchesTransportError
    \/ ExtractAllLaunchesFormatError
    \/ ExtractUniqueIds
    \/ FetchRockets
    \/ FetchRocketsError
    \/ FetchLaunchpads
    \/ FetchLaunchpadsError
    \/ SaveRawJson
    \/ SaveRawJsonError
    \/ GetConnection
    \/ GetConnectionError
    \/ CreateSchema
    \/ CreateSchemaError
    \/ DimInsertRockets
    \/ DimInsertRocketsError
    \/ DimInsertLaunchpads
    \/ DimInsertLaunchpadsError
    \/ DimCommit
    \/ DimCommitError
    \/ DimSelect
    \/ DimSelectError
    \/ LaunchesInsert
    \/ LaunchesInsertError
    \/ LaunchesCommit
    \/ LaunchesCommitError
    \/ Close

Spec == Init /\ [][Next]_vars

(***************************************************************************)
(* Properties                                                              *)
(***************************************************************************)
Tables == {"rockets", "launchpads", "launches"}

Rows(d) == [t \in Tables |-> d[t].rows]

FetchedIds(items) == {items[i].id : i \in DOMAIN items}

\* The values of reference field f that some launch carries, present and
\* neither null nor empty.
RefSet(ls, f) == {ls[i][f] : i \in DOMAIN ls} \ {Null, Absent, ""}

Permute(ls, o) == [i \in DOMAIN ls |-> ls[o[i]]]

\* The launch rows added to the open transaction by the step being taken;
\* the row with key k comes from launches[k - seq], seq being the table's
\* sequence value before the loop.
NewLaunchRows == tx'.launches.rows \ tx.launches.rows

LaunchOf(row) == launches[row.id - tx.launches.seq]

\* C1: two successive runs against the same source data leave the three
\* tables after the second run as they were after the first: while a run
\* works on the data the preceding completed run loaded, no step changes
\* the rows of the database.
C1_Idempotent ==
    [][rerun => Rows(db') = Rows(db)]_vars

\* The foreign key stored for reference value v, given this run's fetched
\* ids and the dimension table.
FkAsSpecified(fk, v, fetched, t) ==
    IF v \in fetched
    THEN \E r \in t.rows : r.spacex_id = v /\ fk = r.id
    ELSE fk = NullInt

FkPresent(d) ==
    \A row \in d.launches.rows :
        /\ row.rocket_id # NullInt => \E r \in d.rockets.rows : r.id = row.rocket_id
        /\ row.launchpad_id # NullInt =>
               \E r \in d.launchpads.rows : r.id = row.launchpad_id

\* C2: every launch row load_launches inserts holds, for rocket and for
\* launchpad, the surrogate key of the dimension row with the referenced
\* natural id when that id is among this run's fetched dimensions, and NULL
\* when the reference is absent, null or not among them; every non-null
\* foreign key of the launches table is the id of a row of its dimension table.
C2_ForeignKeys ==
    [][/\ pc = "launches_insert" =>
            \A row \in NewLaunchRows :
                /\ (row.id - tx.launches.seq) \in DOMAIN launches
                /\ FkAsSpecified(row.rocket_id, LaunchOf(row).rocket,
                                 FetchedIds(rockets_map), tx.rockets)
                /\ FkAsSpecified(row.launchpad_id, LaunchOf(row).launchpad,
                                 FetchedIds(launchpads_map), tx.launchpads)
       /\ FkPresent(tx')
       /\ FkPresent(db')]_vars

C2_Witness ==
    /\ pc = "launches_commit"
    /\ \E row \in tx.launches.rows \ db.launches.rows :
          /\ row.rocket_id # NullInt
          /\ row.launchpad_id = NullInt
    /\ \E row \in db.launches.rows : row.launchpad_id # NullInt

UniqueNaturalIds(d) ==
    \A t \in Tables : \A r1, r2 \in d[t].rows :
        (r1.spacex_id = r2.spacex_id /\ r1.spacex_id # Null) => r1 = r2

\* C3: each table holds at most one row per natural id, in the database and
\* in the open transaction; when the insert loop of load_launches has run
\* through without an exception, every launch of the list that has a natural
\* id has exactly one row, however often the id occurs in the list or was
\* loaded before.
C3_OneRowPerNaturalId ==
    /\ UniqueNaturalIds(db)
    /\ UniqueNaturalIds(tx)
    /\ pc = "launches_commit" =>
          \A i \in DOMAIN launches :
              Get(launches[i], "id") # Null =>
                  Cardinality({r \in tx.launches.rows :
                                  r.spacex_id = Get(launches[i], "id")}) = 1

C3_Witness ==
    /\ pc = "launches_commit"
    /\ Len(launches) = 2
    /\ Get(launches[1], "id") # Null
    /\ Get(launches[1], "id") = Get(launches[2], "id")
    /\ \E r \in db.launches.rows : r.spacex_id = Get(launches[1], "id")

\* C4: no step of any run, successful or failed, removes or alters a
\* committed row of rockets, launchpads or launches, and no two committed
\* rows of a table share a surrogate key.
C4_RowsStable ==
    [][\A t \in Tables :
          /\ db[t].rows \subseteq db'[t].rows
          /\ \A r1, r2 \in db'[t].rows : r1.id = r2.id => r1 = r2]_vars

C4_Witness ==
    /\ pc = "idle"
    /\ outcome = "Done"
    /\ \E i \in DOMAIN prev.launches : \E row \in db.launches.rows :
          /\ row.spacex_id = Get(prev.launches[i], "id")
          /\ row.success # SuccessInt(Get(prev.launches[i], "success"))
    /\ \E r \in db.rockets.rows :
          /\ r.spacex_id \in RefSet(prev.launches, "rocket")
          /\ r.active # ActiveInt(Get(RocketRecord(r.spacex_id, prev.api), "active"))

MapCoversTable(m, t) ==
    /\ DOMAIN m = {r.spacex_id : r \in t.rows}
    /\ \A r \in t.rows : m[r.spacex_id] = r.id

\* C5: the mappings load_dimension_tables returns cover every row of the
\* rockets and launchpads tables, those of earlier runs included, each
\* natural id mapped to its row's surrogate key; load_dimension_tables
\* leaves the rows that were in the tables unchanged.
C5_ReadBackCoversTable ==
    [][/\ pc' \in LaunchPcs =>
            /\ MapCoversTable(rocket_id_map', db'.rockets)
            /\ MapCoversTable(launchpad_id_map', db'.launchpads)
       /\ pc \in DimPcs =>
            /\ tx.rockets.rows \subseteq tx'.rockets.rows
            /\ tx.launchpads.rows \subseteq tx'.launchpads.rows]_vars

C5_Witness ==
    /\ pc = "launches_insert"
    /\ FetchedIds(rockets_map) = {"r2"}
    /\ [id |-> 1, spacex_id |-> "r1", active |-> 1] \in db.rockets.rows
    /\ rocket_id_map["r1"] = 1
    /\ "r2" \in DOMAIN rocket_id_map
    /\ rocket_id_map["r2"] > 1

\* The stage of the run state machine the program is in.
Stage ==
    IF exc # "none" THEN "Failed"
    ELSE IF pc \in DimPcs THEN "SchemaReady"
    ELSE IF pc \in LaunchPcs THEN "DimensionsLoaded"
    ELSE IF pc = "close" THEN "FactsLoaded"
    ELSE IF pc = "idle" /\ outcome = "Done" THEN "Done"
    ELSE "Uninitialized"

StageSteps ==
    {<<"Uninitialized", "SchemaReady">>, <<"SchemaReady", "DimensionsLoaded">>,
     <<"DimensionsLoaded", "FactsLoaded">>, <<"FactsLoaded", "Done">>,
     <<"Uninitialized", "Failed">>, <<"SchemaReady", "Failed">>,
     <<"DimensionsLoaded", "Failed">>,
     <<"Done", "Uninitialized">>, <<"Failed", "Uninitialized">>}

\* C6: a run goes Uninitialized, SchemaReady, DimensionsLoaded, FactsLoaded,
\* Done, one stage at a time, or from a stage before FactsLoaded to Failed;
\* load_dimension_tables runs only with all three tables created,
\* load_launches only with the fetched dimensions committed and mapped; once
\* a stage has failed the run only closes the connection and ends.
C6_StageOrder ==
    [][/\ Stage' # Stage => <<Stage, Stage'>> \in StageSteps
       /\ exc' # "none" => pc' \in {"close", "idle"}
       /\ pc' \in DimPcs \cup LaunchPcs => tx'.schema = AllTables
       /\ pc' \in LaunchPcs =>
            /\ FetchedIds(rockets_map') \subseteq DOMAIN rocket_id_map'
            /\ FetchedIds(launchpads_map') \subseteq DOMAIN launchpad_id_map'
            /\ FetchedIds(rockets_map') \subseteq
                   {r.spacex_id : r \in db'.rockets.rows}
            /\ FetchedIds(launchpads_map') \subseteq
                   {r.spacex_id : r \in db'.launchpads.rows}]_vars

C6_Witness ==
    /\ pc = "idle"
    /\ outcome = "Failed"
    /\ exc = "sqlite3.Error"
    /\ conn = "closed"
    /\ db.launches.rows # {}

\* C7: when the collection fetch or a by-id fetch fails, the run ends at
\* once as Failed with the database as it was and no connection opened; the
\* storage stages run only on the complete collection and with a record
\* fetched for every referenced rocket and launchpad id.
C7_FetchFailureFatal ==
    [][/\ (pc \in FetchPcs /\ exc' \in {"SystemExit", "ValueError"}) =>
            /\ pc' = "idle"
            /\ outcome' = "Failed"
            /\ db' = db
            /\ conn' = "none"
            /\ opens' = 0
       /\ pc' \in StoragePcs =>
            /\ launches' = source'.launches
            /\ FetchedIds(rockets_map') = RefSet(launches', "rocket")
            /\ FetchedIds(launchpads_map') = RefSet(launches', "launchpad")]_vars

C7_Witness ==
    /\ pc = "idle"
    /\ outcome = "Failed"
    /\ exc = "SystemExit"
    /\ conn = "none"
    /\ opens = 0
    /\ db.launches.rows # {}
    /\ db.rockets.rows # {}

\* C8: a run opens at most one connection; the connection is open exactly
\* while the run is in create_schema, load_dimension_tables or load_launches
\* or about to close it, and no run has ended with it open.
C8_ConnectionScoped ==
    /\ opens <= 1
    /\ conn = "open" <=> pc \in StoragePcs \cup {"close"}
    /\ pc = "idle" => conn # "open"
    /\ (pc = "idle" /\ opens = 1) => conn = "closed"

C8_Witness ==
    /\ pc = "idle"
    /\ opens = 1
    /\ conn = "closed"
    /\ outcome = "Failed"
    /\ exc = "sqlite3.Error"

\* C9: a launch row inserted by load_launches stores success true as 1,
\* false as 0 and an absent or null success as NULL, which is neither 0 nor 1.
C9_TriStateSuccess ==
    [][pc = "launches_insert" =>
          \A row \in NewLaunchRows :
              LET v == LaunchOf(row).success
              IN  /\ v = "true" => row.success = 1
                  /\ v = "false" => row.success = 0
                  /\ v \in {Null, Absent} =>
                        (row.success = NullInt /\ row.success \notin {0, 1})]_vars

C9_Witness ==
    /\ pc = "launches_commit"
    /\ \E row \in tx.launches.rows \ db.launches.rows : row.success = NullInt
    /\ \E row \in db.launches.rows : row.success = 0
    /\ \E row \in db.launches.rows : row.success = 1

\* C10: extract_unique_ids yields, for rocket and for launchpad, exactly the
\* set of present, non-null, non-empty values of that field over the
\* launches (an id once, nothing for a field no launch references), and on
\* return it has yielded what it yields for the launches in any other order.
C10_ExtractUniqueIds ==
    /\ pc \notin {"idle", "extract_all_launches", "extract_unique_ids"} =>
          /\ rocket_ids = RefSet(launches, "rocket")
          /\ launchpad_ids = RefSet(launches, "launchpad")
    /\ pc = "fetch_rockets" =>
          \A o \in Orders(DOMAIN launches) :
              extract_unique_ids(Permute(launches, o)) =
                  [rocket_ids |-> rocket_ids, launchpad_ids |-> launchpad_ids]

C10_Witness ==
    /\ pc = "fetch_rockets"
    /\ launches = <<[BaseLaunch EXCEPT !.launchpad = Null], BaseLaunch>>
    /\ rocket_ids = {"r1"}
    /\ launchpad_ids = {"p1"}

====
